---- MODULE Spec2Model ----
(***************************************************************************)
(* The input version resolver of atc/db/algorithm: InputCandidates.Reduce, *)
(* a depth-first backtracking search over per-input candidate versions,    *)
(* with common-build pruning, pins and "use every version" consumption.    *)
(*                                                                         *)
(* Reduce is recursive; the model runs it as a stack machine.  Each frame  *)
(* of `stack` is one activation of Reduce and holds its local variables:   *)
(* newInputCandidates (cands), the loop index i, the iterator versionIDs   *)
(* (iter), the loop copy inputVersionCandidates (saved) and the branch     *)
(* version id.  `ret` is the pair a finished activation returned.          *)
(*                                                                         *)
(* The module also holds imageResourceFetcher.getLatestVersion, where      *)
(* several fetchers contend for one resource checking lock; it has its own *)
(* variables and specifications (SpecFetch, SpecFetchFair).                *)
(***************************************************************************)
EXTENDS Integers, Sequences, FiniteSets

VARIABLES inputs, jobs, stack, ret, attempt, first, calls,
          pc, lock, held, waited, outcome

\* the resolver: the attempt, the activations of Reduce, and `calls`, the
\* number of times ExistsForResource() ran for each input in this attempt
resolverVars == <<inputs, jobs, stack, ret, attempt, first, calls>>

\* the image fetchers in getLatestVersion and the resource checking lock
fetchVars == <<pc, lock, held, waited, outcome>>

vars ==
  <<inputs, jobs, stack, ret, attempt, first, calls, pc, lock, held, waited, outcome>>

(***************************************************************************)
(* Bounds of the explored resolution attempts and fetches.                 *)
(***************************************************************************)
\* image fetchers contending for one resource checking lock
MaxFetchers == 3
\* inputs of one attempt
MaxInputs == 2
\* candidate versions per input, passed-constraint family
MaxVersions == 2
\* upstream jobs, passed-constraint family
MaxJobs == 2
\* recorded builds per job
MaxBuilds == 2
\* candidate versions per input, use-every-version family
MaxEveryVersions == 3

\* a nil ResolvedInputs map, as Reduce returns it with false
NilMap == [nil |-> TRUE, entries |-> <<>>]

\* no activation has returned yet
Nothing == [returned |-> FALSE, ok |-> FALSE, mapping |-> NilMap]

Names == <<"a", "b", "c", "d">>

\* Version IDs are global in the versions database: the candidates of
\* distinct inputs are distinct numbers (a: 1,2,..  b: 10,20,..).
Scale(name) ==
  CASE name = "a" -> 1
    [] name = "b" -> 10
    [] name = "c" -> 100
    [] OTHER -> 1000

Max(S) == CHOOSE x \in S : \A y \in S : y <= x

\* the elements of a set of numbers, greatest first
RECURSIVE Descending(_)
Descending(S) ==
  IF S = {} THEN <<>> ELSE <<Max(S)>> \o Descending(S \ {Max(S)})

\* every order in which the elements of S can be visited
Orders(S) ==
  {f \in [1..Cardinality(S) -> S] : \A x, y \in DOMAIN f : f[x] = f[y] => x = y}

(***************************************************************************)
(* VersionCandidates: the live version IDs of one input.  Every version    *)
(* carries, per job, the builds of that job that used it (inp.passed).     *)
(***************************************************************************)
Len_(vc) == Cardinality(vc)

\* a fresh iterator over the live versions, most recent first
VersionIDs(vc) == Descending(vc)

ForVersion(vc, id) == vc \cap {id}

BuildIDs(inp, vc, jobID) == UNION {inp.passed[v][jobID] : v \in vc}

PruneVersionsOfOtherBuildIDs(inp, vc, jobID, keep) ==
  {v \in vc : inp.passed[v][jobID] = {} \/ inp.passed[v][jobID] \cap keep # {}}

\* VersionsIter.Peek: the version Next would return, without advancing
HasPeek(iter) == iter # <<>>
Peek(iter) == Head(iter)

\* ExistingBuildResolver
ExistsForVersion(inp, version) == version \in inp.forVersion
ExistsForResource(inp) == inp.forResource

(***************************************************************************)
(* InputVersionCandidates                                                  *)
(***************************************************************************)
HasUsedResource(inp) == inp.UseEveryVersion /\ ExistsForResource(inp)

\* how often one call of HasUsedResource runs ExistsForResource(): not at all
\* when the field hasUsedResource is set or && stops at UseEveryVersion
Evaluations(hasUsedResource, inp) ==
  IF hasUsedResource = "nil" /\ inp.UseEveryVersion THEN 1 ELSE 0

\* the field hasUsedResource of the struct HasUsedResource was called on,
\* after the call: the receiver is a copy of that struct, and the pointer
\* line 54 stores goes into the copy
Kept(hasUsedResource, inp) == hasUsedResource

\* IsNext that never asks whether the resource was used before
IsNextConsuming(inp, version, versionIDs) ==
  IF ExistsForVersion(inp, version) THEN TRUE
  ELSE IF ~HasPeek(versionIDs) THEN TRUE
  ELSE ExistsForVersion(inp, Peek(versionIDs))

\* IsNext without the test of the version itself
IsNextOfOlder(inp, version, versionIDs) ==
  IF ~HasUsedResource(inp) THEN TRUE
  ELSE IF ~HasPeek(versionIDs) THEN TRUE
  ELSE ExistsForVersion(inp, Peek(versionIDs))

IsNext(inp, version, versionIDs) ==
  IF ~HasUsedResource(inp) THEN TRUE
  ELSE IF ExistsForVersion(inp, version) THEN TRUE
  ELSE IF ~HasPeek(versionIDs) THEN TRUE
  ELSE IF ExistsForVersion(inp, Peek(versionIDs)) THEN TRUE
  ELSE FALSE

(***************************************************************************)
(* InputCandidates.  `ins` is the sequence of inputs with their fixed      *)
(* fields, `cands` the VersionCandidates each of them currently has.       *)
(***************************************************************************)
\* Pin with the restricted candidates never stored back into the slice
PinNotStored(cands, input, version) == cands

\* Pin that leaves exactly the version, whether or not it was a candidate
PinForced(cands, input, version) == [cands EXCEPT ![input] = {version}]

Pin(cands, input, version) ==
  [cands EXCEPT ![input] = ForVersion(cands[input], version)]

Unpin(cands, input, inputCandidates) ==
  [cands EXCEPT ![input] = inputCandidates]

\* commonBuildIDs that never seeds the set on the first tick
SeedNothing(commonBuildIDs, setBuildIDs) == commonBuildIDs

\* commonBuildIDs, first tick: the set is seeded with the input's builds
Seed(commonBuildIDs, setBuildIDs) == commonBuildIDs \cup setBuildIDs

\* commonBuildIDs that deletes the builds found in the set instead of the others
NarrowInverted(commonBuildIDs, setBuildIDs) == commonBuildIDs \ setBuildIDs

\* commonBuildIDs, later ticks: builds the input does not have are deleted
Narrow(commonBuildIDs, setBuildIDs) == commonBuildIDs \cap setBuildIDs

RECURSIVE commonBuildIDsFrom(_, _, _, _, _, _)
commonBuildIDsFrom(ins, cands, jobID, p, firstTick, commonBuildIDs) ==
  IF p > Len(cands) THEN commonBuildIDs
  ELSE LET setBuildIDs == BuildIDs(ins[p], cands[p], jobID) IN
       IF setBuildIDs = {}
       THEN commonBuildIDsFrom(ins, cands, jobID, p + 1, firstTick, commonBuildIDs)
       ELSE IF firstTick
       THEN commonBuildIDsFrom(ins, cands, jobID, p + 1, FALSE,
                               Seed(commonBuildIDs, setBuildIDs))
       ELSE commonBuildIDsFrom(ins, cands, jobID, p + 1, FALSE,
                               Narrow(commonBuildIDs, setBuildIDs))

commonBuildIDs(ins, cands, jobID) ==
  commonBuildIDsFrom(ins, cands, jobID, 1, TRUE, {})

\* one round of the loop over jobs in pruneToCommonBuilds
PruneJob(ins, cands, jobID) ==
  LET common == commonBuildIDs(ins, cands, jobID) IN
  [p \in DOMAIN cands |->
     PruneVersionsOfOtherBuildIDs(ins[p], cands[p], jobID, common)]

\* `order` is the order in which the range over the JobSet map yields the jobs
RECURSIVE pruneToCommonBuilds(_, _, _)
pruneToCommonBuilds(ins, cands, order) ==
  IF order = <<>> THEN cands
  ELSE pruneToCommonBuilds(ins, PruneJob(ins, cands, Head(order)), Tail(order))

\* return nil, false
Failed == [returned |-> TRUE, ok |-> FALSE, mapping |-> NilMap]

\* the base case with the test of vids.Next() inverted
ResolvedInverted(ins, cands) ==
  IF \E p \in DOMAIN cands : VersionIDs(cands[p]) # <<>>
  THEN Failed
  ELSE [returned |-> TRUE, ok |-> TRUE, mapping |-> [nil |-> FALSE, entries |-> <<>>]]

\* the base case that leaves an input without a version out of the mapping
ResolvedSkipping(ins, cands) ==
  [returned |-> TRUE, ok |-> TRUE,
   mapping |-> [nil |-> FALSE,
                entries |-> [n \in {ins[p].Input : p \in {q \in DOMAIN ins : cands[q] # {}}} |->
                  LET p == Max({q \in DOMAIN ins : ins[q].Input = n})
                  IN Head(VersionIDs(cands[p]))]]]

\* Reduce, lines 107-120: the mapping of every input to its remaining version
Resolved(ins, cands) ==
  IF \E p \in DOMAIN cands : VersionIDs(cands[p]) = <<>>
  THEN Failed
  ELSE [returned |-> TRUE, ok |-> TRUE,
        mapping |-> [nil |-> FALSE,
                     entries |-> [n \in {ins[p].Input : p \in DOMAIN ins} |->
                       LET p == Max({q \in DOMAIN ins : ins[q].Input = n})
                       IN Head(VersionIDs(cands[p]))]]]

(***************************************************************************)
(* The activations of Reduce.                                              *)
(***************************************************************************)
Top == stack[Len(stack)]

\* pruneToCommonBuilds that prunes the receiver's array in place
AfterNoCopy(candidates, newCandidates) == newCandidates

\* lines 136-137: the activation works on a fresh array, newCandidates, so
\* that the array of its receiver, which it shares with its caller, holds at
\* its return what it held at the call
AfterCopy(candidates, newCandidates) == candidates

\* the stack after the return of the top activation; its caller finds its
\* newInputCandidates as the activation left the array
Popped ==
  IF Len(stack) = 1 THEN <<>>
  ELSE [SubSeq(stack, 1, Len(stack) - 1) EXCEPT
          ![Len(stack) - 1].cands = AfterCopy(Top.candidates, Top.cands)]

WithTop(f) == [stack EXCEPT ![Len(stack)] = f]

\* the activation Reduce(depth, jobs) on `cands`, before its first statement
\* `candidates` is the receiver, `before` the newInputCandidates the
\* activation had when it last went round its loop over versionIDs, and
\* hasUsedResource the field of its loop copy inputVersionCandidates
Activation(cands, depth) ==
  [pc |-> "prune", candidates |-> cands, cands |-> cands, i |-> 1,
   iter |-> <<>>, saved |-> {}, id |-> 0, depth |-> depth, before |-> cands,
   hasUsedResource |-> "nil"]

\* Reduce that takes no input as already reduced
ReducedNever(vc) == FALSE

\* line 73: the input is down to one candidate
Reduced(vc) == Len_(vc) = 1

\* line 70: newInputCandidates := candidates.pruneToCommonBuilds(jobs)
Prune ==
  /\ stack # <<>>
  /\ Top.pc = "prune"
  /\ \E order \in Orders(jobs) :
       stack' = WithTop([Top EXCEPT !.pc = "scan",
                           !.cands = pruneToCommonBuilds(inputs, Top.cands, order)])
  /\ UNCHANGED <<inputs, jobs, ret, attempt, first, calls, fetchVars>>

\* lines 73-76: the input is already reduced
ScanReduced ==
  /\ stack # <<>>
  /\ Top.pc = "scan"
  /\ Top.i <= Len(inputs)
  /\ Reduced(Top.cands[Top.i])
  /\ stack' = WithTop([Top EXCEPT !.i = Top.i + 1])
  /\ UNCHANGED <<inputs, jobs, ret, attempt, first, calls, fetchVars>>

\* lines 78-81: the input is pinned
ScanPinned ==
  /\ stack # <<>>
  /\ Top.pc = "scan"
  /\ Top.i <= Len(inputs)
  /\ ~Reduced(Top.cands[Top.i])
  /\ inputs[Top.i].PinnedVersionID # 0
  /\ stack' = WithTop([Top EXCEPT
                         !.cands = Pin(Top.cands, Top.i, inputs[Top.i].PinnedVersionID),
                         !.i = Top.i + 1])
  /\ UNCHANGED <<inputs, jobs, ret, attempt, first, calls, fetchVars>>

\* lines 83-85: the input becomes the branch point of this activation
BranchStart ==
  /\ stack # <<>>
  /\ Top.pc = "scan"
  /\ Top.i <= Len(inputs)
  /\ ~Reduced(Top.cands[Top.i])
  /\ inputs[Top.i].PinnedVersionID = 0
  /\ stack' = WithTop([Top EXCEPT !.pc = "branch",
                         !.saved = Top.cands[Top.i],
                         !.iter = VersionIDs(Top.cands[Top.i]),
                         !.before = Top.cands])
  /\ UNCHANGED <<inputs, jobs, ret, attempt, first, calls, fetchVars>>

\* lines 88-92: the iterator is exhausted, return nil, false
BranchExhausted ==
  /\ stack # <<>>
  /\ Top.pc = "branch"
  /\ Top.iter = <<>>
  /\ stack' = Popped
  /\ ret' = Failed
  /\ UNCHANGED <<inputs, jobs, attempt, first, calls, fetchVars>>

\* lines 88-98: take the next version, pin it and call Reduce(depth+1, jobs)
BranchTry ==
  /\ stack # <<>>
  /\ Top.pc = "branch"
  /\ Top.iter # <<>>
  /\ LET id == Head(Top.iter)
         pinned == Pin(Top.cands, Top.i, id)
     IN stack' = Append(WithTop([Top EXCEPT !.pc = "wait", !.id = id,
                                   !.iter = Tail(Top.iter), !.cands = pinned,
                                   !.before = Top.cands]),
                        Activation(pinned, Top.depth + 1))
  /\ ret' = Nothing
  /\ UNCHANGED <<inputs, jobs, attempt, first, calls, fetchVars>>

\* line 99: IsNext runs only when the call succeeded, and HasUsedResource
\* once in every IsNext
Counted ==
  IF ret.ok
  THEN [calls EXCEPT ![Top.i] = @ + Evaluations(Top.hasUsedResource, inputs[Top.i])]
  ELSE calls

\* lines 99-101: the call succeeded and the version is the next one to use
BranchAccept ==
  /\ stack # <<>>
  /\ Top.pc = "wait"
  /\ ret.ok /\ IsNext(inputs[Top.i], Top.id, Top.iter)
  /\ stack' = Popped
  /\ calls' = Counted
  /\ UNCHANGED <<inputs, jobs, ret, attempt, first, fetchVars>>

\* line 103: otherwise unpin and go round the loop again
BranchReject ==
  /\ stack # <<>>
  /\ Top.pc = "wait"
  /\ ~(ret.ok /\ IsNext(inputs[Top.i], Top.id, Top.iter))
  /\ stack' = WithTop([Top EXCEPT !.pc = "branch",
                         !.cands = Unpin(Top.cands, Top.i, Top.saved),
                         !.hasUsedResource =
                           IF ret.ok THEN Kept(Top.hasUsedResource, inputs[Top.i])
                           ELSE Top.hasUsedResource])
  /\ ret' = Nothing
  /\ calls' = Counted
  /\ UNCHANGED <<inputs, jobs, attempt, first, fetchVars>>

\* lines 107-120: every input was passed by the scan
BaseCase ==
  /\ stack # <<>>
  /\ Top.pc = "scan"
  /\ Top.i > Len(inputs)
  /\ stack' = Popped
  /\ ret' = Resolved(inputs, Top.cands)
  /\ UNCHANGED <<inputs, jobs, attempt, first, calls, fetchVars>>

\* the candidates the caller assembled for the attempt
Candidates == [p \in DOMAIN inputs |-> inputs[p].versions]

\* the caller runs one resolution attempt: Reduce(0, jobs)
Resolve ==
  /\ attempt = 0
  /\ stack' = <<Activation(Candidates, 0)>>
  /\ attempt' = 1
  /\ UNCHANGED <<inputs, jobs, ret, first, calls, fetchVars>>

\* the caller runs the attempt again on the same candidates
Retry ==
  /\ attempt = 1
  /\ stack = <<>>
  /\ first' = ret
  /\ ret' = Nothing
  /\ stack' = <<Activation(Candidates, 0)>>
  /\ attempt' = 2
  /\ calls' = [p \in DOMAIN inputs |-> 0]
  /\ UNCHANGED <<inputs, jobs, fetchVars>>

Done == attempt > 0 /\ stack = <<>>

(***************************************************************************)
(* The resolution attempts explored.  The caller builds the candidates of  *)
(* an input from the build history: a candidate carries a build of a job   *)
(* exactly when the job is in the input's Passed set.                      *)
(***************************************************************************)
AllJobs == 1..MaxJobs

Builds == 1..MaxBuilds

VersionsOf(name, ks) == {Scale(name) * k : k \in ks}

\* the input `name` with the candidates numbered ks of its resource; used[k][j]
\* is the build of job j that used candidate k, `consumed` the candidates
\* earlier builds of this job already took
InputOf(name, passedJobs, pin, every, ks, used, forResource, consumed) ==
  [Input |-> name, Passed |-> passedJobs, PinnedVersionID |-> Scale(name) * pin,
   UseEveryVersion |-> every, versions |-> VersionsOf(name, ks),
   passed |-> [v \in VersionsOf(name, ks) |-> [j \in AllJobs |->
                 IF j \in passedJobs THEN {used[v \div Scale(name)][j]} ELSE {}]],
   forResource |-> forResource, forVersion |-> VersionsOf(name, consumed)]

\* inputs with passed constraints over several jobs, and pins (a pin may name
\* a version that is not a candidate, and an input may have no candidate);
\* entries of `used` that InputOf does not read are fixed to 1
PassedParams ==
  {c \in [P : SUBSET AllJobs, pin : 0..MaxVersions, every : {FALSE},
          ks : SUBSET (1..MaxVersions),
          used : [1..MaxVersions -> [AllJobs -> Builds]],
          forResource : {FALSE}, consumed : {{}}] :
     \A k \in 1..MaxVersions, j \in AllJobs :
       (k \notin c.ks \/ j \notin c.P) => c.used[k][j] = 1}

\* inputs that use every version, with a passed constraint on one job; the
\* resolver is only consulted for inputs that use every version
EveryParams ==
  {c \in [P : SUBSET {1}, pin : {0}, every : BOOLEAN,
          ks : {1..last : last \in 1..MaxEveryVersions},
          used : [1..MaxEveryVersions -> [{1} -> Builds]],
          forResource : BOOLEAN, consumed : SUBSET (1..MaxEveryVersions)] :
     /\ c.consumed \subseteq c.ks
     /\ c.consumed # {} => c.forResource
     /\ c.forResource => c.every
     /\ \A k \in 1..MaxEveryVersions :
          (k \notin c.ks \/ 1 \notin c.P) => c.used[k][1] = 1}

(***************************************************************************)
(* imageResourceFetcher.getLatestVersion.  Every fetcher runs it once, for *)
(* the same image resource, so that all of them contend for one resource   *)
(* checking lock.  pc[f] is the statement fetcher f is at, `lock` the      *)
(* fetcher holding the lock (0: nobody), held[f] whether f ever acquired   *)
(* it, waited[f] whether an attempt of f found the lock taken, outcome[f]  *)
(* what getLatestVersion returned to f.                                    *)
(***************************************************************************)
Fetchers == 1..MaxFetchers

\* every fetcher is about to call AcquireResourceCheckingLock
Waiting ==
  /\ pc = [f \in Fetchers |-> "acquire"]
  /\ lock = 0
  /\ held = [f \in Fetchers |-> FALSE]
  /\ waited = [f \in Fetchers |-> FALSE]
  /\ outcome = [f \in Fetchers |-> "none"]

\* the lock is granted to one holder at a time
Free == lock = 0

\* getLatestVersion that goes on to the check whether or not it got the lock
AfterAttemptUnlocked(acquired) == "create"

\* lines 234-242: without the lock sleep and try again, with it go on
AfterAttempt(acquired) == IF acquired THEN "create" ELSE "sleep"

\* getLatestVersion that never releases the lock
ReleaseNever(l, f) == l

\* line 240, defer lock.Release(): runs at every return after the acquisition
Release(l, f) == IF l = f THEN 0 ELSE l

\* return value, err: the deferred Release runs
Return(f, value) ==
  /\ pc' = [pc EXCEPT ![f] = "done"]
  /\ outcome' = [outcome EXCEPT ![f] = value]
  /\ lock' = Release(lock, f)
  /\ UNCHANGED <<held, waited>>

\* lines 226-232: AcquireResourceCheckingLock failed, return nil, err
AcquireFailed(f) ==
  /\ pc[f] = "acquire"
  /\ pc' = [pc EXCEPT ![f] = "done"]
  /\ outcome' = [outcome EXCEPT ![f] = "acquire-error"]
  /\ UNCHANGED <<lock, held, waited, resolverVars>>

\* lines 234-235: another fetcher holds the lock
NotAcquired(f) ==
  /\ pc[f] = "acquire"
  /\ ~Free
  /\ pc' = [pc EXCEPT ![f] = AfterAttempt(FALSE)]
  /\ waited' = [waited EXCEPT ![f] = TRUE]
  /\ UNCHANGED <<lock, held, outcome, resolverVars>>

\* lines 236-237: i.clock.Sleep(time.Second); continue
Sleep(f) ==
  /\ pc[f] = "sleep"
  /\ pc' = [pc EXCEPT ![f] = "acquire"]
  /\ UNCHANGED <<lock, held, waited, outcome, resolverVars>>

\* lines 240-242: the lock is acquired, its Release deferred; break
Acquired(f) ==
  /\ pc[f] = "acquire"
  /\ Free
  /\ lock' = f
  /\ held' = [held EXCEPT ![f] = TRUE]
  /\ pc' = [pc EXCEPT ![f] = AfterAttempt(TRUE)]
  /\ UNCHANGED <<waited, outcome, resolverVars>>

\* lines 245-259: NewResource failed
CreateFailed(f) ==
  /\ pc[f] = "create"
  /\ Return(f, "create-error")
  /\ UNCHANGED resolverVars

\* lines 245-261: the check container exists, Check is called
Created(f) ==
  /\ pc[f] = "create"
  /\ pc' = [pc EXCEPT ![f] = "check"]
  /\ UNCHANGED <<lock, held, waited, outcome, resolverVars>>

\* lines 261-264: Check failed
CheckFailed(f) ==
  /\ pc[f] = "check"
  /\ Return(f, "check-error")
  /\ UNCHANGED resolverVars

\* lines 266-268: Check found no version, ErrImageUnavailable
NoVersions(f) ==
  /\ pc[f] = "check"
  /\ Return(f, "ErrImageUnavailable")
  /\ UNCHANGED resolverVars

\* line 270: return versions[0], nil
Latest(f) ==
  /\ pc[f] = "check"
  /\ Return(f, "version")
  /\ UNCHANGED resolverVars

InitInputs(order, params) ==
  \E c \in [1..Len(order) -> params] :
    inputs = [p \in 1..Len(order) |->
                InputOf(order[p], c[p].P, c[p].pin, c[p].every, c[p].ks,
                        c[p].used, c[p].forResource, c[p].consumed)]

NameOrders ==
  UNION {Orders({Names[k] : k \in 1..n}) : n \in 1..MaxInputs}

Init ==
  /\ \E order \in NameOrders : InitInputs(order, PassedParams) \/ InitInputs(order, EveryParams)
  /\ jobs = UNION {inputs[p].Passed : p \in DOMAIN inputs}
  /\ stack = <<>>
  /\ ret = Nothing
  /\ attempt = 0
  /\ first = Nothing
  /\ calls = [p \in DOMAIN inputs |-> 0]
  /\ Waiting

Next ==
  \/ Resolve
  \/ Prune
  \/ ScanReduced
  \/ ScanPinned
  \/ BranchStart
  \/ BranchTry
  \/ BranchExhausted
  \/ BranchAccept
  \/ BranchReject
  \/ BaseCase

Spec == Init /\ [][Next]_vars

\* two attempts on the same candidates
SpecAttempts == Init /\ [][Next \/ Retry]_vars

\* the caller waits for the result: the attempt keeps running while it can
SpecLive == Init /\ [][Next]_vars /\ WF_vars(Next)

\* the fetchers alone: no resolution attempt is under way
InitFetch ==
  /\ inputs = <<>>
  /\ jobs = {}
  /\ stack = <<>>
  /\ ret = Nothing
  /\ attempt = 0
  /\ first = Nothing
  /\ calls = <<>>
  /\ Waiting

NextFetch ==
  \E f \in Fetchers :
    \/ AcquireFailed(f)
    \/ NotAcquired(f)
    \/ Sleep(f)
    \/ Acquired(f)
    \/ CreateFailed(f)
    \/ Created(f)
    \/ CheckFailed(f)
    \/ NoVersions(f)
    \/ Latest(f)

SpecFetch == InitFetch /\ [][NextFetch]_vars

\* every fetcher goes on running, a holder's NewResource and Check return,
\* and a fetcher that finds the lock free again and again acquires it
FairFetch ==
  \A f \in Fetchers :
    /\ WF_vars(NotAcquired(f) \/ Sleep(f))
    /\ WF_vars(CreateFailed(f) \/ Created(f))
    /\ WF_vars(CheckFailed(f) \/ NoVersions(f) \/ Latest(f))
    /\ SF_vars(Acquired(f))

SpecFetchFair == InitFetch /\ [][NextFetch]_vars /\ FairFetch

(***************************************************************************)
(* Properties of a finished attempt.                                       *)
(***************************************************************************)
Succeeded == Done /\ ret.ok

\* the version the returned mapping gives the input at position p
Result(p) == ret.mapping.entries[inputs[p].Input]

Positions == DOMAIN inputs

PinnedInputs == {p \in Positions : inputs[p].PinnedVersionID # 0}

\* the builds of job j recorded against version v of the input at p
BuildsOf(p, v, j) == inputs[p].passed[v][j]

\* C1: whenever Reduce returns success, for every job J and every two inputs
\* whose Passed sets both contain J, the two versions of the returned mapping
\* are recorded against at least one common build of J.
PassedConstraintSatisfied ==
  Succeeded =>
    \A j \in jobs : \A p, q \in Positions :
      (p # q /\ j \in inputs[p].Passed /\ j \in inputs[q].Passed)
        => BuildsOf(p, Result(p), j) \cap BuildsOf(q, Result(q), j) # {}

\* C2: an input whose pin is one of its candidates is mapped to the pin by
\* every successful Reduce.
PinHonoured ==
  Succeeded =>
    \A p \in PinnedInputs :
      inputs[p].PinnedVersionID \in inputs[p].versions
        => Result(p) = inputs[p].PinnedVersionID

\* C3: if an input's pin is not one of its candidates, Reduce returns
\* (nil, false), whatever the number of its candidates.
PinAbsentFails ==
  (Done /\ \E p \in PinnedInputs : inputs[p].PinnedVersionID \notin inputs[p].versions)
    => ~ret.ok /\ ret.mapping.nil

\* an assignment of one candidate to every input
Assignments == [Positions -> UNION {inputs[p].versions : p \in Positions}]

\* the assignment takes a candidate of every input, honours every pin, and for
\* every job the versions of the inputs constrained to it share a build
Satisfying(a) ==
  /\ \A p \in Positions : a[p] \in inputs[p].versions
  /\ \A p \in PinnedInputs : a[p] = inputs[p].PinnedVersionID
  /\ \A j \in jobs : \E b \in Builds :
       \A p \in Positions : j \in inputs[p].Passed => b \in BuildsOf(p, a[p], j)

NoUseEveryVersion == \A p \in Positions : ~inputs[p].UseEveryVersion

\* C4: when no input uses every version and some assignment of one candidate
\* per input honours every pin and every passed constraint, Reduce succeeds.
Completeness ==
  (Done /\ NoUseEveryVersion /\ \E a \in Assignments : Satisfying(a)) => ret.ok

\* C4 witness: a finished attempt over two constrained inputs with several
\* candidates each, of which some assignments satisfy and some do not
CompletenessWitness ==
  /\ Succeeded
  /\ NoUseEveryVersion
  /\ jobs # {}
  /\ \A p \in Positions : Cardinality(inputs[p].versions) > 1
  /\ \E a \in Assignments : Satisfying(a)
  /\ \E a \in Assignments :
       (\A p \in Positions : a[p] \in inputs[p].versions) /\ ~Satisfying(a)

\* the oldest candidate the input at p started with
Oldest(p) == CHOOSE v \in inputs[p].versions : \A w \in inputs[p].versions : v <= w

OlderCandidates(p, v) == {w \in inputs[p].versions : w < v}

\* the inputs that use every version and whose resource was used before
Consuming == {p \in Positions : inputs[p].UseEveryVersion /\ inputs[p].forResource}

\* C5: for an input that uses every version and has used its resource, the
\* version of a successful Reduce does not skip an unconsumed older candidate:
\* it was consumed itself, or it is the oldest candidate, or the candidate
\* just before it was consumed; and the oldest candidate is chosen only when
\* no newer candidate has been consumed.
SequentialConsumption ==
  Succeeded =>
    \A p \in Consuming :
      /\ \/ Result(p) \in inputs[p].forVersion
         \/ OlderCandidates(p, Result(p)) = {}
         \/ Max(OlderCandidates(p, Result(p))) \in inputs[p].forVersion
      /\ (Result(p) = Oldest(p) /\ Cardinality(inputs[p].versions) > 1)
           => \A w \in inputs[p].forVersion : w <= Result(p)

InputNames == {inputs[p].Input : p \in Positions}

\* C6: a successful Reduce reaches the base case with exactly one candidate
\* per input and returns one entry per input name, a member of that input's
\* original candidates; a failed Reduce returns a nil mapping.
OutputShape ==
  /\ [](ret.returned =>
          IF ret.ok
          THEN /\ ~ret.mapping.nil
               /\ DOMAIN ret.mapping.entries = InputNames
               /\ \A p \in Positions :
                    ret.mapping.entries[inputs[p].Input] \in inputs[p].versions
          ELSE ret.mapping.nil /\ ret.mapping.entries = <<>>)
  /\ [][(BaseCase /\ ret'.ok) =>
          \A p \in Positions : Cardinality(Top.cands[p]) = 1]_vars

\* C6 witness: a successful attempt in which a pin was applied and a branch
\* was taken
OutputShapeWitness ==
  /\ Succeeded
  /\ Len(inputs) > 1
  /\ \E p \in PinnedInputs : Cardinality(inputs[p].versions) > 1
  /\ \E p \in Positions \ PinnedInputs : Cardinality(inputs[p].versions) > 1

\* C7: pruning an already pruned state again, with the same jobs in any
\* order, changes no input's candidates.
IdempotentPruning ==
  (stack # <<>> /\ Top.pc = "scan" /\ Top.i = 1) =>
    \A order \in Orders(jobs) :
      pruneToCommonBuilds(inputs, Top.cands, order) = Top.cands

\* the input named n
Named(n) == inputs[CHOOSE p \in Positions : inputs[p].Input = n]

\* inputs a (candidates 1, 2) and b (candidates 10, 20), both passed job 1,
\* whose build 1 used (a=2, b=20) and whose build 2 used (a=1, b=10)
Scenario ==
  /\ InputNames = {"a", "b"}
  /\ Len(inputs) = 2
  /\ \A p \in Positions :
       /\ inputs[p].Passed = {1}
       /\ inputs[p].PinnedVersionID = 0
       /\ ~inputs[p].UseEveryVersion
  /\ Named("a").versions = {1, 2}
  /\ Named("b").versions = {10, 20}
  /\ Named("a").passed[2][1] = {1} /\ Named("b").passed[20][1] = {1}
  /\ Named("a").passed[1][1] = {2} /\ Named("b").passed[10][1] = {2}

\* C8: in the scenario Reduce succeeds with {a:2, b:20} or {a:1, b:10}, never
\* a cross combination, for either order of the two inputs.
NoCrossCombination ==
  (Scenario /\ Done) =>
    /\ ret.ok
    /\ \/ ret.mapping.entries = [n \in {"a", "b"} |-> IF n = "a" THEN 2 ELSE 20]
       \/ ret.mapping.entries = [n \in {"a", "b"} |-> IF n = "a" THEN 1 ELSE 10]

\* C8 witness: the scenario resolved with b before a
NoCrossCombinationWitness ==
  Scenario /\ Done /\ inputs[1].Input = "b" /\ ret.returned

\* no input has a pin, a passed constraint or use-every-version, and every
\* input has one candidate
Trivial ==
  \A p \in Positions :
    /\ inputs[p].PinnedVersionID = 0
    /\ inputs[p].Passed = {}
    /\ ~inputs[p].UseEveryVersion
    /\ Cardinality(inputs[p].versions) = 1

\* C9: a trivial attempt succeeds without branching, with the mapping of each
\* input name to its single candidate.
TrivialResolution ==
  Trivial =>
    /\ Len(stack) <= 1
    /\ \A k \in DOMAIN stack : stack[k].pc \in {"prune", "scan"}
    /\ Done =>
         /\ ret.ok
         /\ DOMAIN ret.mapping.entries = InputNames
         /\ \A p \in Positions : inputs[p].versions = {Result(p)}

\* C9 witness: a trivial attempt over several inputs has finished
TrivialResolutionWitness ==
  Trivial /\ Done /\ Len(inputs) > 1 /\ ret.returned

\* C10: two runs of Reduce on the same candidates and jobs return the same
\* flag and the same mapping, whatever order the jobs are visited in.
JobOrderDeterminism ==
  (attempt = 2 /\ Done) => ret = first

\* the activation at level k of the stack
Frame(k) == stack[k]

\* C11: an activation that goes round its loop again after a rejected branch
\* attempt has the candidates it had immediately before Pin(i, v), for every
\* input; and while a nested Reduce runs and after it returned, with success
\* or failure, its caller has the candidates it passed down.
RestoreDiscipline ==
  \A k \in DOMAIN stack :
    /\ Frame(k).pc = "branch" => Frame(k).cands = Frame(k).before
    /\ Frame(k).pc = "wait" =>
         /\ Frame(k).cands[Frame(k).i] = Frame(k).before[Frame(k).i] \cap {Frame(k).id}
         /\ \A p \in Positions \ {Frame(k).i} : Frame(k).cands[p] = Frame(k).before[p]

\* C11 witness: a branch attempt of an attempt over two inputs with passed
\* constraints was rejected, and the activation is back at the top of its loop
RestoreDisciplineWitness ==
  /\ stack # <<>>
  /\ Top.pc = "branch"
  /\ Len(Top.iter) < Cardinality(Top.saved)
  /\ Len(inputs) > 1
  /\ jobs # {}
  /\ \E p \in Positions : Top.cands[p] # inputs[p].versions

\* C12: the candidates an activation works on are, for every input, among
\* those its receiver had when it started, which are what its caller holds
\* while it waits, and the outermost ones are the original candidates:
\* pruneToCommonBuilds, Pin and Unpin add no version.
OnlyShrink ==
  \A k \in DOMAIN stack : \A p \in Positions :
    /\ Frame(k).cands[p] \subseteq Frame(k).candidates[p]
    /\ Frame(k).candidates[p] \subseteq inputs[p].versions
    /\ k > 1 => Frame(k).candidates[p] = Frame(k - 1).cands[p]
    /\ k > 1 => Frame(k - 1).cands[p] \subseteq Frame(k - 1).candidates[p]

\* C12 witness: the outermost activation has unpinned its branch input once
\* and pinned it again, and the pruning of the nested call removed a version
OnlyShrinkWitness ==
  /\ Len(stack) > 1
  /\ Frame(1).pc = "wait"
  /\ Len(Frame(1).iter) + 1 < Cardinality(Frame(1).saved)
  /\ Top.pc = "scan"
  /\ \E p \in Positions : Top.cands[p] # Top.candidates[p]

\* the activations that branch: they are in the loop over the versions of an
\* input that had versions to try
Branching ==
  {k \in DOMAIN stack : Frame(k).pc \in {"branch", "wait"} /\ Frame(k).saved # {}}

\* the depth argument of every activation is its level of nesting, and at
\* most the number of inputs
DepthBound ==
  \A k \in DOMAIN stack : Frame(k).depth = k - 1 /\ Frame(k).depth <= Len(inputs)

\* the input branched on at a deeper level comes later in the sequence
BranchIndexIncreases ==
  \A k, l \in Branching : k < l => Frame(k).i < Frame(l).i

AsksIsNext == stack # <<>> /\ Top.pc = "wait" /\ ret.ok

\* the four rows of the table, on what the resolver and the iterator hold
Row(n) ==
  LET inp == inputs[Top.i] IN
  CASE n = 1 -> ~(inp.UseEveryVersion /\ inp.forResource)
    [] n = 2 -> Top.id \in inp.forVersion
    [] n = 3 -> Top.iter = <<>>
    [] n = 4 -> Top.iter # <<>> /\ Head(Top.iter) \in inp.forVersion

\* C14: where Reduce asks IsNext, the answer is true (the activation returns
\* the mapping) exactly when one of the four rows holds, and false (it stays
\* and goes round its loop) otherwise; the iterator is left where it was.
IsNextTable ==
  [][AsksIsNext =>
       /\ Len(stack') < Len(stack) <=> \E n \in 1..4 : Row(n)
       /\ Len(stack') = Len(stack) => stack'[Len(stack)].iter = Top.iter]_vars

\* C14 witness: the only input uses every version and has used its resource;
\* IsNext was asked about a version and answered false, with older versions
\* left in the iterator
IsNextTableWitness ==
  /\ Len(inputs) = 1
  /\ stack # <<>>
  /\ Top.pc = "branch"
  /\ calls[1] > 0
  /\ Top.iter # <<>>
  /\ Len(Top.iter) < Cardinality(Top.saved)

\* C15: within one attempt ExistsForResource() runs at most once for each
\* input, however often HasUsedResource and IsNext are called for it.
EvaluatedOnce == \A p \in Positions : calls[p] <= 1

\* the innermost activation returns in this step
Returns == stack # <<>> /\ Len(stack') < Len(stack)

\* C16: an attempt with an input that has no candidate ends with (nil, false),
\* and so does every activation, at any depth, that holds an input without
\* candidates after its pruning, pinned or not and wherever it is.
ZeroCandidatesFail ==
  /\ []((Done /\ \E p \in Positions : inputs[p].versions = {}) =>
          (~ret.ok /\ ret.mapping.nil))
  /\ [][(Returns /\ \E p \in Positions : Top.cands[p] = {}) =>
          (~ret'.ok /\ ret'.mapping.nil)]_vars

\* C16 witness: the second input is pinned and has no candidate, the first has
\* several to branch on, and the attempt has ended in failure
ZeroCandidatesFailWitness ==
  /\ Done /\ ret.returned /\ ~ret.ok
  /\ Len(inputs) = 2
  /\ inputs[2].versions = {} /\ inputs[2].PinnedVersionID # 0
  /\ Cardinality(inputs[1].versions) > 1 /\ inputs[1].PinnedVersionID = 0

\* the assignment a successful attempt returned
Returned == [p \in Positions |-> Result(p)]

\* r comes before a, or is a, taking the inputs in sequence order and the
\* versions of an input in the order VersionIDs() enumerates them
Precedes(r, a) ==
  \/ r = a
  \/ \E p \in Positions :
       /\ \A q \in Positions : q < p => r[q] = a[q]
       /\ r[p] # a[p]
       /\ \E m, n \in 1..Len(VersionIDs(inputs[p].versions)) :
            /\ VersionIDs(inputs[p].versions)[m] = r[p]
            /\ VersionIDs(inputs[p].versions)[n] = a[p]
            /\ m < n

\* one job, no pin, no input that uses every version
PlainSingleJob ==
  Cardinality(jobs) = 1 /\ PinnedInputs = {} /\ NoUseEveryVersion

\* C17: with a single job, no pin and no input using every version, a
\* successful Reduce returns a satisfying assignment that precedes every
\* other satisfying assignment.
PreferenceOrder ==
  (Succeeded /\ PlainSingleJob) =>
    /\ Satisfying(Returned)
    /\ \A a \in Assignments : Satisfying(a) => Precedes(Returned, a)

\* C17 witness: two inputs constrained to the job, several satisfying
\* assignments, and the most preferred version of the first input is in none
PreferenceOrderWitness ==
  /\ Succeeded /\ PlainSingleJob
  /\ Len(inputs) = 2
  /\ \A p \in Positions : inputs[p].Passed = jobs
  /\ Cardinality({a \in Assignments : Satisfying(a)}) > 1
  /\ Returned[1] # Max(inputs[1].versions)

\* the fetchers whose Check is running
Checking == {f \in Fetchers : pc[f] = "check"}

\* C18: a fetcher creates its check container and runs Check only while it
\* holds the lock it acquired, so that no two fetchers run Check at the same
\* time; a fetcher that has returned holds no lock, whatever it returned; and
\* a fetcher whose acquisition failed returned that error without ever having
\* held the lock or run Check.
CheckUnderLock ==
  /\ \A f \in Fetchers : pc[f] \in {"create", "check"} => (lock = f /\ held[f])
  /\ Cardinality(Checking) <= 1
  /\ \A f \in Fetchers : pc[f] = "done" => lock # f
  /\ \A f \in Fetchers :
       outcome[f] \in {"create-error", "check-error", "ErrImageUnavailable", "version"}
         <=> (pc[f] = "done" /\ held[f])
  /\ \A f \in Fetchers :
       outcome[f] = "acquire-error" <=> (pc[f] = "done" /\ ~held[f])

\* C18 witness: one fetcher has returned a version and released the lock,
\* another runs Check under the lock, a third sleeps for its next attempt
CheckUnderLockWitness ==
  \E f, g, h \in Fetchers :
    /\ outcome[f] = "version"
    /\ pc[g] = "check" /\ lock = g
    /\ pc[h] = "sleep"

\* C19: with the holders releasing and the acquisition strongly fair, every
\* fetcher returns, also one that found the lock taken and went to sleep; a
\* fetcher that returned had acquired the lock unless its acquisition failed,
\* and no fetcher returns a version without having held the lock.
LockProgress ==
  /\ \A f \in Fetchers : <>(pc[f] = "done")
  /\ \A f \in Fetchers : (pc[f] = "sleep") ~> (held[f] \/ outcome[f] = "acquire-error")
  /\ [](\A f \in Fetchers :
          /\ pc[f] = "done" => (held[f] \/ outcome[f] = "acquire-error")
          /\ outcome[f] = "version" => held[f])

\* C19 witness: every fetcher has returned a version, and all but one of them
\* had found the lock taken before
LockProgressWitness ==
  /\ \A f \in Fetchers : outcome[f] = "version"
  /\ Cardinality({f \in Fetchers : waited[f]}) = MaxFetchers - 1

====
